---- MODULE Spec2Model ----
(***************************************************************************)
(* A model of the two execution-time optimisations of the O3 CPU:          *)
(*   - CompSimplifier (src/cpu/o3/comp_simplifier.{hh,cc}), which bypasses *)
(*     the functional unit for trivial IntMult/IntDiv operations unless    *)
(*     the DIT (data-independent timing) flag operand is set;              *)
(*   - LoadValuePredictor (src/cpu/o3/lvp.cc and its header), a direct-    *)
(*     mapped last-value table with per-thread history queues.             *)
(* Each component has its own specification: SpecCS for the simplifier,    *)
(* Spec for the prediction table, SpecHist for the history queues.         *)
(* Every state keeps, beside the component's members, the last operation   *)
(* and the members as they were when it was entered, so that what an       *)
(* operation did can be read off a single state.                           *)
(***************************************************************************)
EXTENDS Integers, Sequences, FiniteSets, Bags, TLC

VARIABLES
    \* ---- CompSimplifier ----
    csEnabled,      \* CompSimplifier::enabled
    csStats,        \* CompSimplifier::stats (the scalar counters)
    csResult,       \* the caller's RegVal passed as the result reference
    csRet,          \* outcome of the last trySimplify: "none", "true", "false", "panic"
    csInst,         \* the instruction view of the last trySimplify call
    csPreStats,     \* stats as they were when the last call was entered
    csPreResult,    \* result as it was when the last call was entered
    csCalls,        \* number of trySimplify calls made so far
    \* ---- LoadValuePredictor ----
    lvpCfg,         \* tableSize, indexMask, confidenceThreshold,
                    \* confidenceBits, enabled; fatal when construction failed
    table,          \* LoadValuePredictor::table
    history,        \* LoadValuePredictor::history[MaxThreads]
    lvpStats,       \* LoadValuePredictor::stats (the scalar counters)
    call,           \* the last LVP operation with its arguments and outputs
    preTable,       \* table when the last operation was entered
    preHistory,     \* history when the last operation was entered
    preLvpStats,    \* stats when the last operation was entered
    trained,        \* per table index, the training writes made to it so far
    lvpOps,         \* operations made so far where a run's length is capped
    inFlight,       \* per thread, the loads the pipeline holds between
                    \* dispatch and commit, and the youngest seqNum given out
    awaiting        \* per thread, the bag of sequence numbers of the loads
                    \* recorded whose validate call has not been made yet

csVars == <<csEnabled, csStats, csResult, csRet, csInst, csPreStats,
            csPreResult, csCalls>>
lvpVars == <<lvpCfg, table, history, lvpStats, call, preTable, preHistory,
             preLvpStats, trained, lvpOps, inFlight, awaiting>>
vars == <<csVars, lvpVars>>

(***************************************************************************)
(* Bounds of the model.                                                    *)
(***************************************************************************)
\* trySimplify calls explored per behaviour
MaxCalls == 2
\* predict calls explored per behaviour (caps predictions + predNotConfident)
MaxPredicts == 1
\* validate calls that match an entry, per behaviour (caps predCorrect +
\* predIncorrect)
MaxValidates == 2
\* operations per behaviour of the whole predictor (SpecPipe)
MaxOps == 3

(***************************************************************************)
(* Machine values.                                                         *)
(***************************************************************************)
\* RegVal is an unsigned register value.  The simulator's is 64 bits wide;
\* the model keeps 12 bits, so that products of the operand values below
\* wrap and every product still fits the model checker's integers.
RegValMod == 2 ^ 12
MaxRegVal == RegValMod - 1

\* operand values the simplifier is exercised with: the trivial values 0
\* and 1, the non-trivial 7 and 42 of the test programs, and all-ones
Vals == {0, 1, 7, 42, MaxRegVal}

(***************************************************************************)
(* CompSimplifier: the instruction view.                                   *)
(*                                                                         *)
(* A source operand carries what trySimplify reads of it: whether its      *)
(* architectural index is cc_reg::Dit, the class of its renamed physical   *)
(* register, and the value cpu->getReg returns for it.  A destination      *)
(* carries its class and isAlwaysReady().                                  *)
(***************************************************************************)
OpClasses == {"IntAluOp", "IntMultOp", "IntDivOp"}

\* values the DIT operand is read with: clear, set, and set as PSTATE bit 24
DitVals == {0, 1, 2 ^ 24}

IntSrc(v) == [isDit |-> FALSE, class |-> "IntRegClass", val |-> v]
CCSrc == [isDit |-> FALSE, class |-> "CCRegClass", val |-> 0]
DitSrc(v) == [isDit |-> TRUE, class |-> "CCRegClass", val |-> v]

IntDest == [class |-> "IntRegClass", alwaysReady |-> FALSE]
ZeroDest == [class |-> "IntRegClass", alwaysReady |-> TRUE]
CCDest == [class |-> "CCRegClass", alwaysReady |-> FALSE]

Inst(op, srcs, dests) == [opClass |-> op, srcs |-> srcs, dests |-> dests]

\* MUL / UDIV / SDIV Xd, Xn, Xm with the DIT operand attached last, over
\* every pair of operand values
ValueInsts ==
    { Inst(op, <<IntSrc(a), IntSrc(b), DitSrc(d)>>, <<IntDest>>) :
        op \in {"IntMultOp", "IntDivOp"}, a \in Vals, b \in Vals,
        d \in {0, 1} }

\* the non-DIT sources of the operand shapes: no integer source, one, two
\* (also around a condition-code source), three (MADD / MSUB)
SrcShapes ==
    { <<>>, <<IntSrc(42)>>, <<IntSrc(0), IntSrc(42)>>,
      <<IntSrc(42), IntSrc(7)>>, <<IntSrc(1), CCSrc, IntSrc(42)>>,
      <<IntSrc(42), IntSrc(1), IntSrc(0)>> }

\* the DIT operand is absent, or attached before or after the other sources
WithDit(srcs) ==
    { srcs, <<DitSrc(0)>> \o srcs, <<DitSrc(1)>> \o srcs,
      srcs \o <<DitSrc(0)>>, srcs \o <<DitSrc(2 ^ 24)>> }

DestLists == { <<>>, <<IntDest>>, <<ZeroDest>>, <<CCDest>> }

\* multiplies and divides of every operand shape, DIT placement and
\* destination
ShapeInsts ==
    { Inst(op, srcs, dests) :
        op \in {"IntMultOp", "IntDivOp"},
        srcs \in UNION { WithDit(sh) : sh \in SrcShapes },
        dests \in DestLists }

\* instructions of another operation class
AluInsts ==
    { Inst("IntAluOp", srcs, <<IntDest>>) :
        srcs \in WithDit(<<IntSrc(0), IntSrc(42)>>) \cup WithDit(<<>>) }

Insts == ValueInsts \cup ShapeInsts \cup AluInsts

NoInst == [opClass |-> "IntAluOp", srcs |-> <<>>, dests |-> <<>>]

ZeroCSStats ==
    [simplified |-> 0, candidates |-> 0, multByZero |-> 0, multByOne |-> 0,
     divOfZero |-> 0, divByOne |-> 0, ditSuppressed |-> 0]

Inc(stats, f) == [stats EXCEPT ![f] = @ + 1]

(***************************************************************************)
(* CompSimplifier::trySimplify, in the order of the code.                  *)
(***************************************************************************)
\* the outcome of a call: the value returned, the result reference and the
\* statistics afterwards
Outcome(ret, result, stats) == [ret |-> ret, result |-> result, stats |-> stats]

\* the first source whose architectural index is cc_reg::Dit, 0 when none:
\* the scan breaks at the first match
FirstDit(inst) ==
    IF \E i \in 1..Len(inst.srcs) : inst.srcs[i].isDit
    THEN CHOOSE i \in 1..Len(inst.srcs) :
            /\ inst.srcs[i].isDit
            /\ \A j \in 1..(i - 1) : ~inst.srcs[j].isDit
    ELSE 0

\* mutant: the flag is taken as set only when it reads exactly 1
DitSuppressesOnlyOne(ditVal) == ditVal = 1

\* mutant: the flag is not consulted
DitIgnored(ditVal) == FALSE

\* if (ditVal != 0): constant-time mode, the simplification is skipped
DitSuppresses(ditVal) == ditVal # 0

\* mutant: an always-ready destination (the zero register) is accepted
DestRejectedAllowsAlwaysReady(inst) ==
    \/ Len(inst.dests) = 0
    \/ inst.dests[1].class # "IntRegClass"

\* the destination filter: no destination, or the first one is not an
\* integer register, or it is always ready
DestRejected(inst) ==
    \/ Len(inst.dests) = 0
    \/ inst.dests[1].class # "IntRegClass"
    \/ inst.dests[1].alwaysReady

RECURSIVE IntSrcScan(_, _)
\* the indices of the integer-class sources, in operand order
IntSrcScan(inst, i) ==
    IF i > Len(inst.srcs) THEN <<>>
    ELSE IF inst.srcs[i].class = "IntRegClass"
            /\ inst.srcs[i].class # "InvalidRegClass"
         THEN <<i>> \o IntSrcScan(inst, i + 1)
         ELSE IntSrcScan(inst, i + 1)

IntSrcIndices(inst) == IntSrcScan(inst, 1)

\* mutant: the by-one cases are tried before the by-zero case
SimplifyMultOneFirst(src0, src1, result, stats) ==
    IF src0 = 1
    THEN Outcome("true", src1, Inc(Inc(stats, "simplified"), "multByOne"))
    ELSE IF src1 = 1
    THEN Outcome("true", src0, Inc(Inc(stats, "simplified"), "multByOne"))
    ELSE IF src0 = 0 \/ src1 = 0
    THEN Outcome("true", 0, Inc(Inc(stats, "simplified"), "multByZero"))
    ELSE Outcome("false", result, stats)

\* mutant: a left operand of 1 yields the left operand
SimplifyMultWrongOperand(src0, src1, result, stats) ==
    IF src0 = 0 \/ src1 = 0
    THEN Outcome("true", 0, Inc(Inc(stats, "simplified"), "multByZero"))
    ELSE IF src0 = 1
    THEN Outcome("true", src0, Inc(Inc(stats, "simplified"), "multByOne"))
    ELSE IF src1 = 1
    THEN Outcome("true", src0, Inc(Inc(stats, "simplified"), "multByOne"))
    ELSE Outcome("false", result, stats)

\* the IntMultOp cases, after ++stats.candidates
SimplifyMult(src0, src1, result, stats) ==
    IF src0 = 0 \/ src1 = 0
    THEN Outcome("true", 0, Inc(Inc(stats, "simplified"), "multByZero"))
    ELSE IF src0 = 1
    THEN Outcome("true", src1, Inc(Inc(stats, "simplified"), "multByOne"))
    ELSE IF src1 = 1
    THEN Outcome("true", src0, Inc(Inc(stats, "simplified"), "multByOne"))
    ELSE Outcome("false", result, stats)

\* mutant: result is cleared before the cases are tried
SimplifyDivClearsResult(src0, src1, result, stats) ==
    IF src0 = 0 /\ src1 # 0
    THEN Outcome("true", 0, Inc(Inc(stats, "simplified"), "divOfZero"))
    ELSE IF src1 = 1
    THEN Outcome("true", src0, Inc(Inc(stats, "simplified"), "divByOne"))
    ELSE Outcome("false", 0, stats)

\* mutant: a zero dividend is simplified whatever the divisor is
SimplifyDivAnyDivisor(src0, src1, result, stats) ==
    IF src0 = 0
    THEN Outcome("true", 0, Inc(Inc(stats, "simplified"), "divOfZero"))
    ELSE IF src1 = 1
    THEN Outcome("true", src0, Inc(Inc(stats, "simplified"), "divByOne"))
    ELSE Outcome("false", result, stats)

\* the IntDivOp cases, after ++stats.candidates
SimplifyDiv(src0, src1, result, stats) ==
    IF src0 = 0 /\ src1 # 0
    THEN Outcome("true", 0, Inc(Inc(stats, "simplified"), "divOfZero"))
    ELSE IF src1 = 1
    THEN Outcome("true", src0, Inc(Inc(stats, "simplified"), "divByOne"))
    ELSE Outcome("false", result, stats)

\* mutant: an instruction counts as a candidate only once a case matched
InspectOperandsCountsMatched(inst, result, stats) ==
    LET idx == IntSrcIndices(inst)
        src0 == inst.srcs[idx[1]].val
        src1 == inst.srcs[idx[2]].val
        out == IF inst.opClass = "IntMultOp"
               THEN SimplifyMult(src0, src1, result, stats)
               ELSE SimplifyDiv(src0, src1, result, stats)
    IN  IF out.ret = "true"
        THEN Outcome(out.ret, out.result, Inc(out.stats, "candidates"))
        ELSE out

\* operand inspection: the two integer sources are read and the cases tried
InspectOperands(inst, result, stats) ==
    LET idx == IntSrcIndices(inst)
        src0 == inst.srcs[idx[1]].val
        src1 == inst.srcs[idx[2]].val
        cand == Inc(stats, "candidates")
    IN  IF inst.opClass = "IntMultOp"
        THEN SimplifyMult(src0, src1, result, cand)
        ELSE SimplifyDiv(src0, src1, result, cand)

\* mutant: the enabled flag is not consulted
trySimplifyIgnoresEnabled(enabled, inst, result, stats) ==
    IF inst.opClass # "IntMultOp" /\ inst.opClass # "IntDivOp"
    THEN Outcome("false", result, stats)
    ELSE LET d == FirstDit(inst) IN
         IF d # 0 /\ DitSuppresses(inst.srcs[d].val)
         THEN Outcome("false", result, Inc(stats, "ditSuppressed"))
         ELSE IF d = 0
         THEN Outcome("panic", result, stats)
         ELSE IF DestRejected(inst)
         THEN Outcome("false", result, stats)
         ELSE IF Len(IntSrcIndices(inst)) # 2
         THEN Outcome("false", result, stats)
         ELSE InspectOperands(inst, result, stats)

\* mutant: a multiply or divide without the DIT operand is filtered on
\* like one whose DIT operand reads zero
trySimplifyNoPanic(enabled, inst, result, stats) ==
    IF ~enabled THEN Outcome("false", result, stats)
    ELSE IF inst.opClass # "IntMultOp" /\ inst.opClass # "IntDivOp"
    THEN Outcome("false", result, stats)
    ELSE LET d == FirstDit(inst) IN
         IF d # 0 /\ DitSuppresses(inst.srcs[d].val)
         THEN Outcome("false", result, Inc(stats, "ditSuppressed"))
         ELSE IF DestRejected(inst)
         THEN Outcome("false", result, stats)
         ELSE IF Len(IntSrcIndices(inst)) # 2
         THEN Outcome("false", result, stats)
         ELSE InspectOperands(inst, result, stats)

trySimplify(enabled, inst, result, stats) ==
    IF ~enabled THEN Outcome("false", result, stats)
    ELSE IF inst.opClass # "IntMultOp" /\ inst.opClass # "IntDivOp"
    THEN Outcome("false", result, stats)
    ELSE LET d == FirstDit(inst) IN
         IF d # 0 /\ DitSuppresses(inst.srcs[d].val)
         THEN Outcome("false", result, Inc(stats, "ditSuppressed"))
         ELSE IF d = 0
         THEN Outcome("panic", result, stats)
         ELSE IF DestRejected(inst)
         THEN Outcome("false", result, stats)
         ELSE IF Len(IntSrcIndices(inst)) # 2
         THEN Outcome("false", result, stats)
         ELSE InspectOperands(inst, result, stats)

(***************************************************************************)
(* LoadValuePredictor: configuration, table entries, history entries.      *)
(***************************************************************************)
\* LVPEntry() : confidence(3, 0): a 3-bit SatCounter8 starting at 0
ConfidenceCounterBits == 3
MaxConfidence == 2 ^ ConfidenceCounterBits - 1

\* hardware thread contexts (the history array has one queue per thread)
Threads == {0, 1}

\* load PCs: 0 and 0x100 share slot 0 in every table size used, 0x104 has
\* slot 1 of the 8-entry table to itself; 0 is also the tag of an empty slot
PCs == {0, 256, 260}
\* committed and actual load values
Values == {5, 9}
\* the output of predict when no value was written to it
NoValue == -1

\* constructor parameters: 8 and 1 are powers of two, 6 is not
TableSizes == {1, 6, 8}
Thresholds == {0, 2, 7}
\* the constructor's Params: tableSize, confidenceThreshold, confidenceBits
\* and enabled
LVPParamsBits(size, threshold, bits, en) ==
    [tableSize |-> size, confidenceThreshold |-> threshold,
     confidenceBits |-> bits, enabled |-> en]
\* Params whose confidenceBits is the width the table's counters have
LVPParams(size, threshold, en) ==
    LVPParamsBits(size, threshold, ConfidenceCounterBits, en)
\* configured counter widths other than that width
OtherConfidenceBits == {2, 4}
\* an enabled predictor of every size and threshold, a disabled one, and
\* one-entry predictors configured with a narrower and a wider counter
Params ==
    { LVPParams(size, threshold, TRUE) :
        size \in TableSizes, threshold \in Thresholds }
    \cup { LVPParams(1, 2, FALSE) }
    \cup { LVPParamsBits(1, 2, bits, TRUE) : bits \in OtherConfidenceBits }

\* isPowerOf2(n): n is non-zero and has a single bit set
isPowerOf2(n) == \E k \in 0..30 : n = 2 ^ k

RECURSIVE BitAnd(_, _)
\* a & b on non-negative integers
BitAnd(a, b) ==
    IF a = 0 \/ b = 0 THEN 0
    ELSE (a % 2) * (b % 2) + 2 * BitAnd(a \div 2, b \div 2)

\* LVPEntry's member initialisers
EmptyEntry == [tag |-> 0, value |-> 0, confidence |-> 0, valid |-> FALSE]

\* mutant: the table size is not checked
ConstructUnchecked(p) ==
    [tableSize |-> p.tableSize,
     indexMask |-> p.tableSize - 1,
     confidenceThreshold |-> p.confidenceThreshold,
     confidenceBits |-> p.confidenceBits,
     enabled |-> p.enabled,
     fatal |-> FALSE]

\* the constructor: the members are set, then a table size that is not a
\* power of two is fatal, otherwise the table is resized to tableSize
Construct(p) ==
    [tableSize |-> p.tableSize,
     indexMask |-> p.tableSize - 1,
     confidenceThreshold |-> p.confidenceThreshold,
     confidenceBits |-> p.confidenceBits,
     enabled |-> p.enabled,
     fatal |-> ~isPowerOf2(p.tableSize)]

ConstructTable(cfg) ==
    IF cfg.fatal THEN <<>> ELSE [i \in 0..(cfg.tableSize - 1) |-> EmptyEntry]

ZeroLVPStats ==
    [predictions |-> 0, predCorrect |-> 0, predIncorrect |-> 0,
     predNotConfident |-> 0, squashes |-> 0]

EmptyHistory == [t \in Threads |-> <<>>]

NoCall == [op |-> "none"]

(***************************************************************************)
(* LoadValuePredictor: the operations.                                     *)
(***************************************************************************)
\* (pc >> 2) & indexMask
getIndex(cfg, pc) == BitAnd(pc \div 4, cfg.indexMask)

getTag(pc) == pc

\* SatCounter8::operator++ : no-op at the maximum
SatIncrement(c) == IF c < MaxConfidence THEN c + 1 ELSE c

\* SatCounter8::reset() : back to the initial value
SatReset == 0

\* mutant: the confidence must exceed the threshold
ConfidentAbove(cfg, entry, pc) ==
    /\ entry.valid
    /\ entry.tag = getTag(pc)
    /\ entry.confidence > cfg.confidenceThreshold

\* mutant: the tag is not compared
ConfidentNoTag(cfg, entry, pc) ==
    /\ entry.valid
    /\ entry.confidence >= cfg.confidenceThreshold

\* mutant: a confidence one below the threshold is enough
ConfidentOneShort(cfg, entry, pc) ==
    /\ entry.valid
    /\ entry.tag = getTag(pc)
    /\ entry.confidence + 1 >= cfg.confidenceThreshold

\* the condition under which predict issues the stored value
Confident(cfg, entry, pc) ==
    /\ entry.valid
    /\ entry.tag = getTag(pc)
    /\ entry.confidence >= cfg.confidenceThreshold

\* mutant: a disabled predictor counts the call as not confident
predictCountsWhenDisabled(cfg, tbl, stats, pc, tid) ==
    LET entry == tbl[getIndex(cfg, pc)] IN
    IF cfg.enabled /\ Confident(cfg, entry, pc)
    THEN [ret |-> TRUE, value |-> entry.value,
          stats |-> Inc(stats, "predictions")]
    ELSE [ret |-> FALSE, value |-> NoValue,
          stats |-> Inc(stats, "predNotConfident")]

\* mutant: only thread 0 is given predictions
predictThreadZeroOnly(cfg, tbl, stats, pc, tid) ==
    IF ~cfg.enabled
    THEN [ret |-> FALSE, value |-> NoValue, stats |-> stats]
    ELSE LET entry == tbl[getIndex(cfg, pc)] IN
         IF tid = 0 /\ Confident(cfg, entry, pc)
         THEN [ret |-> TRUE, value |-> entry.value,
               stats |-> Inc(stats, "predictions")]
         ELSE [ret |-> FALSE, value |-> NoValue,
               stats |-> Inc(stats, "predNotConfident")]

\* predict: the value returned, the value output and the statistics after
predict(cfg, tbl, stats, pc, tid) ==
    IF ~cfg.enabled
    THEN [ret |-> FALSE, value |-> NoValue, stats |-> stats]
    ELSE LET entry == tbl[getIndex(cfg, pc)] IN
         IF Confident(cfg, entry, pc)
         THEN [ret |-> TRUE, value |-> entry.value,
               stats |-> Inc(stats, "predictions")]
         ELSE [ret |-> FALSE, value |-> NoValue,
               stats |-> Inc(stats, "predNotConfident")]

\* mutant: an installed entry starts with confidence 1
TrainEntryInstallAtOne(entry, pc, value) ==
    IF entry.valid /\ entry.tag = getTag(pc)
    THEN IF entry.value = value
         THEN [entry EXCEPT !.confidence = SatIncrement(@)]
         ELSE [entry EXCEPT !.value = value, !.confidence = SatReset]
    ELSE [valid |-> TRUE, tag |-> getTag(pc), value |-> value,
          confidence |-> 1]

\* mutant: a changed value is stored without resetting the confidence
TrainEntryKeepConfidence(entry, pc, value) ==
    IF entry.valid /\ entry.tag = getTag(pc)
    THEN IF entry.value = value
         THEN [entry EXCEPT !.confidence = SatIncrement(@)]
         ELSE [entry EXCEPT !.value = value]
    ELSE [valid |-> TRUE, tag |-> getTag(pc), value |-> value,
          confidence |-> SatReset]

\* mutant: an install keeps the confidence of the entry it replaces
TrainEntryInstallKeepsConfidence(entry, pc, value) ==
    IF entry.valid /\ entry.tag = getTag(pc)
    THEN IF entry.value = value
         THEN [entry EXCEPT !.confidence = SatIncrement(@)]
         ELSE [entry EXCEPT !.value = value, !.confidence = SatReset]
    ELSE [valid |-> TRUE, tag |-> getTag(pc), value |-> value,
          confidence |-> entry.confidence]

\* mutant: a changed value invalidates the entry
TrainEntryInvalidatesOnChange(entry, pc, value) ==
    IF entry.valid /\ entry.tag = getTag(pc)
    THEN IF entry.value = value
         THEN [entry EXCEPT !.confidence = SatIncrement(@)]
         ELSE [entry EXCEPT !.valid = FALSE, !.confidence = SatReset]
    ELSE [valid |-> TRUE, tag |-> getTag(pc), value |-> value,
          confidence |-> SatReset]

\* mutant: an install raises the confidence of the entry it replaces
TrainEntryInstallRaises(entry, pc, value) ==
    IF entry.valid /\ entry.tag = getTag(pc)
    THEN IF entry.value = value
         THEN [entry EXCEPT !.confidence = SatIncrement(@)]
         ELSE [entry EXCEPT !.value = value, !.confidence = SatReset]
    ELSE [valid |-> TRUE, tag |-> getTag(pc), value |-> value,
          confidence |-> SatIncrement(entry.confidence)]

\* the entry update leaves in the indexed slot
TrainEntry(entry, pc, value) ==
    IF entry.valid /\ entry.tag = getTag(pc)
    THEN IF entry.value = value
         THEN [entry EXCEPT !.confidence = SatIncrement(@)]
         ELSE [entry EXCEPT !.value = value, !.confidence = SatReset]
    ELSE [valid |-> TRUE, tag |-> getTag(pc), value |-> value,
          confidence |-> SatReset]

\* mutant: the training write reaches every slot
updateAllSlots(cfg, tbl, pc, value) ==
    [i \in DOMAIN tbl |-> TrainEntry(tbl[i], pc, value)]

update(cfg, tbl, pc, value) ==
    LET idx == getIndex(cfg, pc) IN
    [tbl EXCEPT ![idx] = TrainEntry(@, pc, value)]

\* mutant: the entry is pushed at the head of the queue
addHistoryAtHead(hist, entry) ==
    [hist EXCEPT ![entry.tid] = <<entry>> \o @]

\* history[entry.tid].push_back(entry)
addHistory(hist, entry) == [hist EXCEPT ![entry.tid] = Append(@, entry)]

RECURSIVE PopYoungerOrEqual(_, _)
\* mutant: the entry at the squash point is removed as well
PopYoungerOrEqual(q, squashedSeqNum) ==
    IF Len(q) # 0 /\ q[Len(q)].seqNum >= squashedSeqNum
    THEN PopYoungerOrEqual(SubSeq(q, 1, Len(q) - 1), squashedSeqNum)
    ELSE q

RECURSIVE PopYounger(_, _)
\* while (!hist.empty() && hist.back().seqNum > squashedSeqNum) pop_back()
PopYounger(q, squashedSeqNum) ==
    IF Len(q) # 0 /\ q[Len(q)].seqNum > squashedSeqNum
    THEN PopYounger(SubSeq(q, 1, Len(q) - 1), squashedSeqNum)
    ELSE q

squash(hist, squashedSeqNum, tid) ==
    [hist EXCEPT ![tid] = PopYounger(@, squashedSeqNum)]

\* mutant: the head is removed whatever its sequence number is
PopCommittedAnyHead(q, seqNum) ==
    IF Len(q) # 0 THEN Tail(q) ELSE q

\* mutant: the sequence number is compared with the tail entry's
PopCommittedComparesTail(q, seqNum) ==
    IF Len(q) # 0 /\ q[Len(q)].seqNum = seqNum THEN Tail(q) ELSE q

\* if (!hist.empty() && hist.front().seqNum == seqNum) pop_front()
PopCommitted(q, seqNum) ==
    IF Len(q) # 0 /\ q[1].seqNum = seqNum THEN Tail(q) ELSE q

commitEntry(hist, seqNum, tid) ==
    [hist EXCEPT ![tid] = PopCommitted(@, seqNum)]

RECURSIVE ScanOrder(_, _)
\* the entries in the order validate visits them: the queues by ascending
\* thread id from t on, each from head to tail
ScanOrder(hist, t) ==
    IF t \notin Threads THEN <<>> ELSE hist[t] \o ScanOrder(hist, t + 1)

\* mutant: an entry recorded without a prediction is matched as well
MatchesAnyEntry(h, seqNum) == h.seqNum = seqNum

\* h.seqNum == seqNum && h.predicted
Matches(h, seqNum) == h.seqNum = seqNum /\ h.predicted

\* validate: the value returned and the statistics after
validate(hist, stats, seqNum, actualValue) ==
    LET all == ScanOrder(hist, 0)
        hits == { i \in 1..Len(all) : Matches(all[i], seqNum) }
    IN  IF hits = {}
        THEN [ret |-> TRUE, stats |-> stats]
        ELSE LET h == all[CHOOSE i \in hits : \A j \in hits : i <= j] IN
             IF h.predictedValue = actualValue
             THEN [ret |-> TRUE, stats |-> Inc(stats, "predCorrect")]
             ELSE [ret |-> FALSE,
                   stats |-> Inc(Inc(stats, "predIncorrect"), "squashes")]

(***************************************************************************)
(* LoadValuePredictor: the state machine.  call records the last operation *)
(* with its arguments, its return value (TRUE for a void operation) and,   *)
(* for predict, the value output.                                          *)
(***************************************************************************)
Call(op, pc, tid, seqNum, value, ret, out) ==
    [op |-> op, pc |-> pc, tid |-> tid, seqNum |-> seqNum, value |-> value,
     ret |-> ret, out |-> out]

\* The record of the update calls that mapped to one table index: the pc
\* and value of the most recent one, the number of most recent calls that
\* were this same update(pc, value) (counted up to MaxConfidence + 1), and
\* whether every call so far was this same update.
Untrained == [pc |-> -1, value |-> -1, run |-> 0, fresh |-> TRUE]

RunCap == MaxConfidence + 1

NoteUpdate(t, pc, value) ==
    IF t.run = 0
    THEN [pc |-> pc, value |-> value, run |-> 1, fresh |-> TRUE]
    ELSE IF t.pc = pc /\ t.value = value
    THEN [t EXCEPT !.run = IF @ < RunCap THEN @ + 1 ELSE @]
    ELSE [pc |-> pc, value |-> value, run |-> 1, fresh |-> FALSE]

\* the pipeline's view of a thread before its first load is dispatched
NoLoads == [t \in Threads |-> [loads |-> <<>>, youngest |-> 0]]

\* no load has been recorded yet
NoneAwaiting == [t \in Threads |-> EmptyBag]

\* the table index of a pc, by arithmetic: the word address modulo the size
IndexOf(pc) == (pc \div 4) % lvpCfg.tableSize

\* the state LoadValuePredictor(p) leaves
Constructed(p) ==
    /\ lvpCfg = Construct(p)
    /\ table = ConstructTable(Construct(p))
    /\ history = EmptyHistory
    /\ lvpStats = ZeroLVPStats
    /\ call = NoCall
    /\ preTable = table
    /\ preHistory = history
    /\ preLvpStats = lvpStats
    /\ trained = [i \in DOMAIN table |-> Untrained]
    /\ lvpOps = 0
    /\ inFlight = NoLoads
    /\ awaiting = NoneAwaiting

\* every operation snapshots the state it was entered in
Entered ==
    /\ ~lvpCfg.fatal
    /\ preTable' = table
    /\ preHistory' = history
    /\ preLvpStats' = lvpStats
    /\ UNCHANGED lvpCfg

Predict(pc, tid) ==
    /\ Entered
    /\ lvpStats.predictions + lvpStats.predNotConfident < MaxPredicts
    /\ LET r == predict(lvpCfg, table, lvpStats, pc, tid) IN
         /\ lvpStats' = r.stats
         /\ call' = Call("predict", pc, tid, 0, 0, r.ret, r.value)
    /\ UNCHANGED <<table, history, trained>>

Update(pc, value) ==
    /\ Entered
    /\ table' = update(lvpCfg, table, pc, value)
    /\ call' = Call("update", pc, 0, 0, value, TRUE, NoValue)
    /\ trained' = [trained EXCEPT ![IndexOf(pc)] = NoteUpdate(@, pc, value)]
    /\ UNCHANGED <<history, lvpStats>>

(***************************************************************************)
(* The history queues under the pipeline's calls.  Dispatch records a load *)
(* with addHistory; the sequence numbers a thread dispatches increase, so  *)
(* an entry is appended only behind an older tail.                         *)
(***************************************************************************)
\* instruction sequence numbers in flight, and the squash points used
SeqNums == {10, 11, 12}
SquashPoints == {9, 10, 11}

\* LVPHistory as dispatch fills it in: a predicted load carries the value
\* predicted, a load recorded for bookkeeping only carries none
HistEntry(seqNum, tid, predicted) ==
    [seqNum |-> seqNum, pc |-> 256, tid |-> tid,
     predictedValue |-> IF predicted THEN 5 ELSE 0, predicted |-> predicted]

\* dispatch order: the new entry is younger than the thread's tail entry
InDispatchOrder(hist, entry) ==
    LET q == hist[entry.tid] IN
    IF Len(q) = 0 THEN TRUE ELSE q[Len(q)].seqNum < entry.seqNum

AddHistory(entry) ==
    /\ Entered
    /\ InDispatchOrder(history, entry)
    /\ history' = addHistory(history, entry)
    /\ call' = Call("addHistory", entry.pc, entry.tid, entry.seqNum,
                    entry.predictedValue, TRUE, NoValue)
    /\ UNCHANGED <<table, lvpStats, trained>>

Squash(squashedSeqNum, tid) ==
    /\ Entered
    /\ history' = squash(history, squashedSeqNum, tid)
    /\ call' = Call("squash", 0, tid, squashedSeqNum, 0, TRUE, NoValue)
    /\ UNCHANGED <<table, lvpStats, trained>>

CommitEntry(seqNum, tid) ==
    /\ Entered
    /\ history' = commitEntry(history, seqNum, tid)
    /\ call' = Call("commitEntry", 0, tid, seqNum, 0, TRUE, NoValue)
    /\ UNCHANGED <<table, lvpStats, trained>>

\* validate reads the queues and counts the outcome; the entry it matched
\* stays where it is
Validate(seqNum, actualValue) ==
    /\ Entered
    /\ lvpStats.predCorrect + lvpStats.predIncorrect < MaxValidates
    /\ LET r == validate(history, lvpStats, seqNum, actualValue) IN
         /\ lvpStats' = r.stats
         /\ call' = Call("validate", 0, 0, seqNum, actualValue, r.ret, NoValue)
    /\ UNCHANGED <<table, history, trained>>

(***************************************************************************)
(* CompSimplifier: the state machine.  The issue stage calls trySimplify   *)
(* with an instruction whose operands are ready; a panic ends the run.     *)
(***************************************************************************)
\* what the caller's result variable holds when it is passed in: a value
\* no simplification of the operand values above produces
EntryResult == CHOOSE r \in 2..6 : r \notin Vals

\* the simplifier as constructed, enabled or not, beside an idle predictor
InitCS ==
    /\ csEnabled \in BOOLEAN
    /\ csStats = ZeroCSStats
    /\ csResult = EntryResult
    /\ csRet = "none"
    /\ csInst = NoInst
    /\ csPreStats = ZeroCSStats
    /\ csPreResult = EntryResult
    /\ csCalls = 0
    /\ Constructed(LVPParams(8, 2, TRUE))

TrySimplify(inst) ==
    /\ csRet # "panic"
    /\ csCalls < MaxCalls
    /\ LET out == trySimplify(csEnabled, inst, EntryResult, csStats) IN
         /\ csRet' = out.ret
         /\ csResult' = out.result
         /\ csStats' = out.stats
    /\ csInst' = inst
    /\ csPreStats' = csStats
    /\ csPreResult' = EntryResult
    /\ csCalls' = csCalls + 1
    /\ UNCHANGED csEnabled

NextCS == \E inst \in Insts : TrySimplify(inst) /\ UNCHANGED lvpVars

(***************************************************************************)
(* The specifications.  Spec: the prediction table under predict and       *)
(* update, for every constructor parameter.  SpecHist: the history queues  *)
(* under addHistory, squash and commitEntry.  SpecCS: the simplifier.      *)
(***************************************************************************)
\* the simplifier the predictor runs beside: enabled and idle
InitIdleCS ==
    /\ csEnabled = TRUE
    /\ csStats = ZeroCSStats
    /\ csResult = EntryResult
    /\ csRet = "none"
    /\ csInst = NoInst
    /\ csPreStats = ZeroCSStats
    /\ csPreResult = EntryResult
    /\ csCalls = 0

Init == InitIdleCS /\ \E p \in Params : Constructed(p)

\* an operation of a specification that does not cap the run's length
Uncounted == UNCHANGED <<csVars, lvpOps, inFlight, awaiting>>

Next ==
    \/ \E pc \in PCs, tid \in Threads : Predict(pc, tid) /\ Uncounted
    \/ \E pc \in PCs, v \in Values : Update(pc, v) /\ Uncounted

Spec == Init /\ [][Next]_vars

InitHist == InitIdleCS /\ Constructed(LVPParams(1, 2, TRUE))

NextHist ==
    \/ \E sn \in SeqNums, tid \in Threads, predicted \in BOOLEAN :
         AddHistory(HistEntry(sn, tid, predicted)) /\ Uncounted
    \/ \E sn \in SquashPoints, tid \in Threads :
         Squash(sn, tid) /\ Uncounted
    \/ \E sn \in SeqNums, tid \in Threads :
         CommitEntry(sn, tid) /\ Uncounted

SpecHist == InitHist /\ [][NextHist]_vars

(***************************************************************************)
(* SpecVal: the history queues with validate.  The execute stage calls     *)
(* validate with a load's sequence number and the value it read; the call  *)
(* may arrive after the load's entry was squashed or committed.            *)
(***************************************************************************)
ValSeqNums == {10, 11}
ValSquashPoints == {9, 10}

\* LVPHistory of a load dispatched with the prediction (hit, value)
HistEntryOf(seqNum, tid, hit, value) ==
    [seqNum |-> seqNum, pc |-> 256, tid |-> tid,
     predictedValue |-> IF hit THEN value ELSE 0, predicted |-> hit]

\* the entries dispatch records: not predicted, or predicted with a value
ValEntries ==
    { HistEntryOf(sn, tid, FALSE, 0) : sn \in ValSeqNums, tid \in Threads }
    \cup { HistEntryOf(sn, tid, TRUE, v) :
             sn \in ValSeqNums, tid \in Threads, v \in Values }

InitVal == InitIdleCS /\ Constructed(LVPParams(1, 2, TRUE))

NextVal ==
    \/ \E entry \in ValEntries : AddHistory(entry) /\ Uncounted
    \/ \E sn \in ValSquashPoints, tid \in Threads :
         Squash(sn, tid) /\ Uncounted
    \/ \E sn \in ValSeqNums, tid \in Threads :
         CommitEntry(sn, tid) /\ Uncounted
    \/ \E sn \in ValSeqNums, v \in Values : Validate(sn, v) /\ Uncounted

SpecVal == InitVal /\ [][NextVal]_vars

(***************************************************************************)
(* SpecPipe: all six operations on one predictor, a two-entry table and    *)
(* two threads, for runs of at most MaxOps operations.                     *)
(***************************************************************************)
PipePCs == {256, 260}

PipeParams == { LVPParams(2, 0, TRUE), LVPParams(2, 0, FALSE) }

InitPipe == InitIdleCS /\ \E p \in PipeParams : Constructed(p)

\* an operation of a run whose length is capped
Counted ==
    /\ lvpOps < MaxOps
    /\ lvpOps' = lvpOps + 1
    /\ UNCHANGED <<csVars, inFlight, awaiting>>

NextPipe ==
    \/ \E pc \in PipePCs, tid \in Threads : Predict(pc, tid) /\ Counted
    \/ \E pc \in PipePCs, v \in Values : Update(pc, v) /\ Counted
    \/ \E sn \in ValSeqNums, tid \in Threads, predicted \in BOOLEAN :
         AddHistory(HistEntry(sn, tid, predicted)) /\ Counted
    \/ \E sn \in ValSquashPoints, tid \in Threads :
         Squash(sn, tid) /\ Counted
    \/ \E sn \in ValSeqNums, tid \in Threads :
         CommitEntry(sn, tid) /\ Counted
    \/ \E sn \in ValSeqNums, v \in Values : Validate(sn, v) /\ Counted

SpecPipe == InitPipe /\ [][NextPipe]_vars

SpecCS == InitCS /\ [][NextCS]_vars

(***************************************************************************)
(* SpecAlt: two loads whose pcs share a table slot are trained in strict   *)
(* alternation, with predict calls in between.                             *)
(***************************************************************************)
\* 0 and 0x100 map to index 0 of the one-entry and of the 8-entry table
AltPCs == {0, 256}

AltParams ==
    { LVPParams(size, threshold, TRUE) :
        size \in {1, 8}, threshold \in Thresholds }

InitAlt == InitIdleCS /\ \E p \in AltParams : Constructed(p)

\* update(pc, value) when the previous update of the index, if any, was
\* for the other pc
UpdateAlternating(pc, value) ==
    /\ trained[IndexOf(pc)].pc # pc
    /\ Update(pc, value)

NextAlt ==
    \/ \E pc \in AltPCs, tid \in Threads : Predict(pc, tid) /\ Uncounted
    \/ \E pc \in AltPCs, v \in Values :
         UpdateAlternating(pc, v) /\ Uncounted

SpecAlt == InitAlt /\ [][NextAlt]_vars

(***************************************************************************)
(* SpecLive: the history queues under a pipeline that retires in order.    *)
(* Dispatch gives a thread's loads increasing sequence numbers and records *)
(* each with addHistory; a recovery squashes the loads younger than the    *)
(* rollback point, whose sequence numbers may then be given out again;     *)
(* commit names the thread's oldest load in flight, once.  A load in       *)
(* flight is eventually retired unless a recovery removes it first.        *)
(***************************************************************************)
Dispatch(seqNum, tid, predicted) ==
    /\ seqNum > inFlight[tid].youngest
    /\ AddHistory(HistEntry(seqNum, tid, predicted))
    /\ inFlight' = [inFlight EXCEPT ![tid] =
                      [loads |-> Append(@.loads, seqNum),
                       youngest |-> seqNum]]
    /\ UNCHANGED <<csVars, lvpOps, awaiting>>

Recover(squashedSeqNum, tid) ==
    /\ Squash(squashedSeqNum, tid)
    /\ inFlight' = [inFlight EXCEPT ![tid] =
                      [loads |-> SelectSeq(@.loads,
                                           LAMBDA sn : sn <= squashedSeqNum),
                       youngest |-> IF @.youngest < squashedSeqNum
                                    THEN @.youngest
                                    ELSE squashedSeqNum]]
    /\ UNCHANGED <<csVars, lvpOps, awaiting>>

Retire(tid) ==
    /\ inFlight[tid].loads # <<>>
    /\ CommitEntry(Head(inFlight[tid].loads), tid)
    /\ inFlight' = [inFlight EXCEPT ![tid].loads = Tail(@)]
    /\ UNCHANGED <<csVars, lvpOps, awaiting>>

InitLive == InitIdleCS /\ Constructed(LVPParams(1, 2, TRUE))

NextLive ==
    \/ \E sn \in ValSeqNums, tid \in Threads, predicted \in BOOLEAN :
         Dispatch(sn, tid, predicted)
    \/ \E sn \in ValSquashPoints, tid \in Threads : Recover(sn, tid)
    \/ \E tid \in Threads : Retire(tid)

SpecLive ==
    /\ InitLive
    /\ [][NextLive]_vars
    /\ \A tid \in Threads : WF_vars(Retire(tid))

(***************************************************************************)
(* SpecAcc: the predictor's counters under a pipeline that dispatches a    *)
(* load by calling predict and recording what predict returned with        *)
(* addHistory, and that calls validate once for a recorded load when the   *)
(* load's value arrives, which may be after the load's entry was squashed  *)
(* or committed.  Sequence numbers increase within a thread and are        *)
(* given out again after a squash rolled them back.                        *)
(***************************************************************************)
\* loads dispatched in one run
MaxLoads == 2
\* the confidence up to which the run goes on training the slot
MaxTrained == 1

\* the pc of the loads: the one-entry table's slot is theirs
LoadPC == 256

\* predict, then addHistory with predicted and predictedValue as returned
DispatchLoad(seqNum, tid) ==
    /\ Entered
    /\ lvpStats.predictions + lvpStats.predNotConfident < MaxLoads
    /\ LET r == predict(lvpCfg, table, lvpStats, LoadPC, tid)
           entry == HistEntryOf(seqNum, tid, r.ret, r.value)
       IN  /\ InDispatchOrder(history, entry)
           /\ lvpStats' = r.stats
           /\ history' = addHistory(history, entry)
           /\ call' = Call("addHistory", entry.pc, tid, seqNum,
                           entry.predictedValue, TRUE, NoValue)
    /\ awaiting' = [awaiting EXCEPT ![tid] = @ (+) SetToBag({seqNum})]
    /\ UNCHANGED <<table, trained, csVars, lvpOps, inFlight>>

\* commit trains the table with a load's value
Train(value) ==
    /\ table[getIndex(lvpCfg, LoadPC)].confidence < MaxTrained
    /\ Update(LoadPC, value)
    /\ Uncounted

\* the value of a recorded load of thread tid arrives: its one validate call
Writeback(seqNum, tid, actualValue) ==
    /\ BagIn(seqNum, awaiting[tid])
    /\ Validate(seqNum, actualValue)
    /\ awaiting' = [awaiting EXCEPT ![tid] = @ (-) SetToBag({seqNum})]
    /\ UNCHANGED <<csVars, lvpOps, inFlight>>

InitAcc == InitIdleCS /\ Constructed(LVPParams(1, 0, TRUE))

NextAcc ==
    \/ \E v \in Values : Train(v)
    \/ \E sn \in ValSeqNums, tid \in Threads : DispatchLoad(sn, tid)
    \/ \E sn \in ValSeqNums, tid \in Threads, v \in Values :
         Writeback(sn, tid, v)
    \/ \E sn \in ValSquashPoints, tid \in Threads :
         Squash(sn, tid) /\ Uncounted
    \/ \E sn \in ValSeqNums, tid \in Threads :
         CommitEntry(sn, tid) /\ Uncounted

SpecAcc == InitAcc /\ [][NextAcc]_vars

(***************************************************************************)
(* Properties of CompSimplifier::trySimplify (checked under SpecCS).       *)
(***************************************************************************)
\* a trySimplify call has been made and csInst, csRet describe it
Called == csRet # "none"

IsMulDiv(inst) == inst.opClass \in {"IntMultOp", "IntDivOp"}

\* the instruction carries a DIT source operand that reads non-zero
DitReadsSet(inst) ==
    \E i \in 1..Len(inst.srcs) : inst.srcs[i].isDit /\ inst.srcs[i].val # 0

\* the instruction carries a DIT source operand and it reads zero
DitReadsClear(inst) ==
    /\ \E i \in 1..Len(inst.srcs) : inst.srcs[i].isDit
    /\ \A i \in 1..Len(inst.srcs) : inst.srcs[i].isDit => inst.srcs[i].val = 0

IsIntSrc(s) == s.class = "IntRegClass"

\* the values of the integer-class source operands, in operand order
IntVals(inst) ==
    LET ints == SelectSeq(inst.srcs, IsIntSrc)
    IN  [i \in 1..Len(ints) |-> ints[i].val]

\* C1: on an enabled simplifier, an IntMult or IntDiv instruction whose DIT
\* operand reads non-zero is never simplified, whatever its operand values,
\* destination and source classes are; the call increments ditSuppressed by
\* one and no other counter.
C1_DitSetNeverSimplified ==
    (Called /\ csEnabled /\ IsMulDiv(csInst) /\ DitReadsSet(csInst))
        => /\ csRet = "false"
           /\ csStats = Inc(csPreStats, "ditSuppressed")

\* the spec's scenario: flag = 1, multiply of (7, 0), suppressed
C1_Witness ==
    /\ csEnabled
    /\ csInst = Inst("IntMultOp", <<IntSrc(7), IntSrc(0), DitSrc(1)>>,
                     <<IntDest>>)
    /\ csRet = "false"
    /\ csStats.ditSuppressed = csPreStats.ditSuppressed + 1

\* two instructions that differ at most in the values of their integer
\* source operands
SameButIntValues(i1, i2) ==
    /\ i1.opClass = i2.opClass
    /\ i1.dests = i2.dests
    /\ Len(i1.srcs) = Len(i2.srcs)
    /\ \A k \in 1..Len(i1.srcs) :
         /\ i1.srcs[k].isDit = i2.srcs[k].isDit
         /\ i1.srcs[k].class = i2.srcs[k].class
         /\ (~IsIntSrc(i1.srcs[k]) => i1.srcs[k].val = i2.srcs[k].val)

\* C2: while the DIT operand is non-zero the outcome carries no information
\* about operand values: the call just made and the same call on any
\* instruction differing only in integer operand values return the same
\* value, leave the same result and change the counters alike.
C2_DitSetOutcomeIndependentOfValues ==
    (Called /\ DitReadsSet(csInst))
        => \A other \in Insts :
             SameButIntValues(csInst, other)
                => trySimplify(csEnabled, other, csPreResult, csPreStats)
                     = Outcome(csRet, csResult, csStats)

\* a suppressed multiply of non-trivial operands for which a variant with a
\* zero operand exists
C2_Witness ==
    /\ csEnabled
    /\ csRet = "false"
    /\ csInst.opClass = "IntMultOp"
    /\ DitReadsSet(csInst)
    /\ IntVals(csInst) = <<42, 7>>
    /\ \E other \in Insts :
         /\ SameButIntValues(csInst, other)
         /\ IntVals(other) = <<0, 42>>

\* what the functional unit computes on register-width operands
FUMult(a, b) == (a * b) % RegValMod

FUUDiv(a, b) == IF b = 0 THEN 0 ELSE a \div b

ToSigned(x) == IF 2 * x >= RegValMod THEN x - RegValMod ELSE x

Abs(x) == IF x < 0 THEN -x ELSE x

\* SDIV: the quotient rounded towards zero, 0 for a zero divisor
FUSDiv(a, b) ==
    LET sa == ToSigned(a)
        sb == ToSigned(b)
        q == IF sb = 0 THEN 0
             ELSE IF (sa < 0) = (sb < 0) THEN Abs(sa) \div Abs(sb)
             ELSE -(Abs(sa) \div Abs(sb))
    IN  q % RegValMod

\* C3: whenever trySimplify returns simplified, result is what the
\* functional unit computes on the same operands: the product for IntMult,
\* the (unsigned and signed) quotient for IntDiv.
C3_SimplifiedResultIsFUResult ==
    (Called /\ csRet = "true")
        => /\ Len(IntVals(csInst)) = 2
           /\ LET a == IntVals(csInst)[1]
                  b == IntVals(csInst)[2]
              IN  IF csInst.opClass = "IntMultOp"
                  THEN csResult = FUMult(a, b)
                  ELSE /\ csInst.opClass = "IntDivOp"
                       /\ csResult = FUUDiv(a, b)
                       /\ csResult = FUSDiv(a, b)

\* 1 * 42 simplified to 42
C3_Witness ==
    /\ csRet = "true"
    /\ csInst.opClass = "IntMultOp"
    /\ IntVals(csInst) = <<1, 42>>
    /\ csResult = 42

\* filters 1-6 pass with the DIT operand reading zero
EligibleDitClear(inst) ==
    /\ csEnabled
    /\ IsMulDiv(inst)
    /\ DitReadsClear(inst)
    /\ Len(inst.dests) > 0
    /\ inst.dests[1].class = "IntRegClass"
    /\ ~inst.dests[1].alwaysReady
    /\ Len(IntVals(inst)) = 2

\* an operand pair none of the five trivial cases covers
NonTrivial(inst) ==
    LET a == IntVals(inst)[1]
        b == IntVals(inst)[2]
    IN  IF inst.opClass = "IntMultOp"
        THEN a \notin {0, 1} /\ b \notin {0, 1}
        ELSE b # 1 /\ ~(a = 0 /\ b # 0)

\* C4: with DIT zero and an eligible instruction, every non-trivial operand
\* pair is declined (every division by zero included); candidates is
\* incremented and no other counter.
C4_NonTrivialDeclined ==
    (Called /\ EligibleDitClear(csInst) /\ NonTrivial(csInst))
        => /\ csRet = "false"
           /\ csStats = Inc(csPreStats, "candidates")

\* 0 / 0 declined and counted as a candidate
C4_Witness ==
    /\ EligibleDitClear(csInst)
    /\ csInst.opClass = "IntDivOp"
    /\ IntVals(csInst) = <<0, 0>>
    /\ csRet = "false"
    /\ csStats.candidates = csPreStats.candidates + 1
    /\ csStats.simplified = csPreStats.simplified

(***************************************************************************)
(* Properties of the prediction table (checked under Spec).                *)
(***************************************************************************)
Min(a, b) == IF a < b THEN a ELSE b

\* C5: predict(pc, tid) hits if and only if the predictor is enabled and the
\* slot at index (pc >> 2) & (tableSize - 1) is valid, has tag pc and has
\* confidence >= confidenceThreshold; on a hit the value output is the
\* slot's stored value.
C5_PredictHitIffConfident ==
    call.op = "predict"
        => LET e == preTable[IndexOf(call.pc)] IN
           /\ call.ret <=> /\ lvpCfg.enabled
                           /\ e.valid
                           /\ e.tag = call.pc
                           /\ e.confidence >= lvpCfg.confidenceThreshold
           /\ call.ret => call.out = e.value

\* a hit with the confidence exactly at a non-zero threshold
C5_Witness ==
    /\ call.op = "predict"
    /\ call.ret
    /\ call.pc = 256
    /\ call.out = 5
    /\ lvpCfg.confidenceThreshold = 2
    /\ table[IndexOf(256)].confidence = 2

\* C6: after any sequence of update calls, predict(pc, tid) returns a value
\* v only if the most recent update that mapped to pc's index was
\* update(pc, v); it never hits for an untrained pc nor returns a value
\* trained under another pc of the same index, in every table size.
C6_PredictOnlyLastTrained ==
    (call.op = "predict" /\ call.ret)
        => LET t == trained[IndexOf(call.pc)] IN
           /\ t.run >= 1
           /\ t.pc = call.pc
           /\ t.value = call.out

\* a hit for 0x104 in the one-entry table, where every pc shares the slot,
\* after the slot had been trained under another pc or value
C6_Witness ==
    /\ call.op = "predict"
    /\ call.ret
    /\ call.pc = 260
    /\ call.out = 9
    /\ lvpCfg.tableSize = 1
    /\ ~trained[0].fresh

\* the configuration of the scenario: 8 entries, threshold 2, enabled
Scenario ==
    /\ lvpCfg.tableSize = 8
    /\ lvpCfg.confidenceThreshold = 2
    /\ lvpCfg.enabled
    /\ ~lvpCfg.fatal

\* C7 as stated: n training writes of the same (pc, value) to an untrained
\* slot bring its confidence to n (up to saturation); in the scenario two
\* update(0x100, 5) calls make predict(0x100) return (true, 5).
C7_Original ==
    /\ \A i \in DOMAIN table :
         (trained[i].fresh /\ trained[i].run >= 1)
            => table[i].confidence = Min(trained[i].run, MaxConfidence)
    /\ ( /\ Scenario
         /\ call.op = "predict"
         /\ call.pc = 256
         /\ trained[IndexOf(256)] =
              [pc |-> 256, value |-> 5, run |-> 2, fresh |-> TRUE] )
        => (call.ret /\ call.out = 5)

\* C7 (amended): n training writes of the same (pc, value) to an untrained
\* slot bring its confidence to n - 1 (up to saturation), the first one
\* installing the entry with confidence 0; in the scenario predict(0x100)
\* returns (true, 5) from the third update(0x100, 5) on and not before, and
\* after one further update(0x100, 9) the confidence is 0 and predict(0x100)
\* returns no prediction.
C7_Amended ==
    /\ \A i \in DOMAIN table :
         /\ (trained[i].fresh /\ trained[i].run >= 1)
               => table[i].confidence = Min(trained[i].run - 1, MaxConfidence)
         /\ trained[i].run = 1 => table[i].confidence = 0
    /\ ( /\ Scenario
         /\ call.op = "predict"
         /\ call.pc = 256
         /\ trained[IndexOf(256)].pc = 256
         /\ trained[IndexOf(256)].value = 5
         /\ trained[IndexOf(256)].fresh )
        => /\ call.ret <=> trained[IndexOf(256)].run >= 3
           /\ call.ret => call.out = 5
    /\ ( /\ Scenario
         /\ call.op = "predict"
         /\ call.pc = 256
         /\ trained[IndexOf(256)].run = 1 )
        => ~call.ret

\* the scenario after three update(0x100, 5): predict(0x100) = (true, 5)
C7_Witness ==
    /\ Scenario
    /\ call.op = "predict"
    /\ call.pc = 256
    /\ trained[IndexOf(256)] =
         [pc |-> 256, value |-> 5, run |-> 3, fresh |-> TRUE]
    /\ call.ret
    /\ call.out = 5
    /\ table[IndexOf(256)].confidence = 2

\* C8: an update(pc, v) that finds the slot valid with tag pc and value v
\* never lowers its confidence (it adds one unless at the maximum); an
\* update(pc, w) at the same tag with another value stores w and sets the
\* confidence to 0.
C8_SameValueRaisesOtherValueResets ==
    call.op = "update"
        => LET old == preTable[IndexOf(call.pc)]
               new == table[IndexOf(call.pc)]
           IN  (old.valid /\ old.tag = call.pc)
                  => IF old.value = call.value
                     THEN /\ new.confidence >= old.confidence
                          /\ new.confidence =
                               IF old.confidence < MaxConfidence
                               THEN old.confidence + 1
                               ELSE old.confidence
                          /\ new.value = old.value
                     ELSE /\ new.value = call.value
                          /\ new.confidence = 0

\* a saturated entry whose value changes: confidence 7 falls to 0
C8_Witness ==
    /\ call.op = "update"
    /\ preTable[IndexOf(call.pc)].valid
    /\ preTable[IndexOf(call.pc)].tag = call.pc
    /\ preTable[IndexOf(call.pc)].value # call.value
    /\ preTable[IndexOf(call.pc)].confidence = MaxConfidence
    /\ table[IndexOf(call.pc)].value = call.value
    /\ table[IndexOf(call.pc)].confidence = 0

(***************************************************************************)
(* Properties of the history queues (checked under SpecHist).              *)
(***************************************************************************)
\* the sequence numbers of a queue, head to tail
SeqNumsOf(q) == [i \in 1..Len(q) |-> q[i].seqNum]

\* C9: after squash(s, tid), thread tid's queue holds exactly the entries it
\* held before whose seqNum is <= s, in their original order (an entry with
\* seqNum = s is kept), and every other thread's queue is unchanged.
C9_SquashRemovesExactlyYounger ==
    call.op = "squash"
        => LET Kept(h) == h.seqNum <= call.seqNum IN
           /\ history[call.tid] = SelectSeq(preHistory[call.tid], Kept)
           /\ \A t \in Threads \ {call.tid} : history[t] = preHistory[t]

\* the spec's scenario: thread 0 holds 10, 11, 12 and squash(10, 0) leaves
\* 10, beside a non-empty queue of thread 1
C9_Witness ==
    /\ call.op = "squash"
    /\ call.tid = 0
    /\ call.seqNum = 10
    /\ SeqNumsOf(preHistory[0]) = <<10, 11, 12>>
    /\ SeqNumsOf(history[0]) = <<10>>
    /\ SeqNumsOf(history[1]) = <<11, 12>>

\* C10: commitEntry(s, tid) removes an entry only when thread tid's queue is
\* non-empty and its head has seqNum s, and then exactly that head; in every
\* other case no queue changes.
C10_CommitRemovesOnlyMatchingHead ==
    call.op = "commitEntry"
        => LET q == preHistory[call.tid] IN
           /\ history[call.tid] =
                IF Len(q) > 0 /\ q[1].seqNum = call.seqNum
                THEN SubSeq(q, 2, Len(q))
                ELSE q
           /\ \A t \in Threads \ {call.tid} : history[t] = preHistory[t]

\* a commit of a sequence number that is in the queue but not at its head:
\* nothing is removed
C10_Witness ==
    /\ call.op = "commitEntry"
    /\ call.tid = 0
    /\ call.seqNum = 11
    /\ SeqNumsOf(preHistory[0]) = <<10, 11>>
    /\ history = preHistory

(***************************************************************************)
(* Properties of validate (checked under SpecVal).                         *)
(***************************************************************************)
\* the sequence numbers of the entries the squash just made removed from
\* its thread's queue
SquashedNow ==
    { preHistory[call.tid][i].seqNum :
        i \in (Len(history[call.tid]) + 1)..Len(preHistory[call.tid]) }

\* C11: once squash has removed the history entry of a load, a later
\* validate call for that load's sequence number returns true and changes
\* no counter, for every actual value; stated for the validate call that
\* follows the squash.
C11_StaleValidateReturnsTrue ==
    [][ ( /\ call.op = "squash"
          /\ call'.op = "validate"
          /\ call'.seqNum \in SquashedNow )
            => (call'.ret /\ lvpStats' = lvpStats) ]_vars

\* the entry at position i of thread t's queue, as validate was entered,
\* has the sequence number validated and was recorded as predicted
IsMatch(t, i) ==
    /\ preHistory[t][i].seqNum = call.seqNum
    /\ preHistory[t][i].predicted

\* and no entry the scan visits earlier (a lower thread, or the same thread
\* nearer the head) is such an entry
IsFirstMatch(t, i) ==
    /\ IsMatch(t, i)
    /\ \A u \in Threads : \A j \in 1..Len(preHistory[u]) :
         (u < t \/ (u = t /\ j < i)) => ~IsMatch(u, j)

\* C12: validate(seqNum, actual) returns false exactly when the first entry
\* of the scan (threads ascending, each queue head to tail) with that seqNum
\* and predicted = true has a predictedValue other than actual; entries
\* with predicted = false are never matched, and when nothing matches the
\* result is true and no counter changes.  A match increments predCorrect
\* on equality, and predIncorrect together with squashes on inequality.
C12_ValidateFirstPredictedMatch ==
    call.op = "validate"
        => /\ (~call.ret) <=>
                \E t \in Threads : \E i \in 1..Len(preHistory[t]) :
                    /\ IsFirstMatch(t, i)
                    /\ preHistory[t][i].predictedValue # call.value
           /\ (\A t \in Threads : \A i \in 1..Len(preHistory[t]) :
                    ~IsMatch(t, i))
                 => (call.ret /\ lvpStats = preLvpStats)
           /\ \A t \in Threads : \A i \in 1..Len(preHistory[t]) :
                 IsFirstMatch(t, i)
                    => lvpStats =
                         IF preHistory[t][i].predictedValue = call.value
                         THEN Inc(preLvpStats, "predCorrect")
                         ELSE Inc(Inc(preLvpStats, "predIncorrect"),
                                  "squashes")

\* sequence number 11 is held unpredicted at the head side of the scan and
\* predicted with 5 and with 9 further on: validate(11, 9) is decided by
\* the entry predicting 5 and reports a misprediction
C12_Witness ==
    /\ call.op = "validate"
    /\ call.seqNum = 11
    /\ call.value = 9
    /\ ~call.ret
    /\ \E i \in 1..Len(preHistory[0]) :
         IsFirstMatch(0, i) /\ preHistory[0][i].predictedValue = 5
    /\ \E j \in 1..Len(preHistory[1]) :
         IsMatch(1, j) /\ preHistory[1][j].predictedValue = 9
    /\ \E i \in 1..Len(preHistory[0]) :
         preHistory[0][i].seqNum = 10 /\ ~preHistory[0][i].predicted
    /\ lvpStats.predIncorrect = preLvpStats.predIncorrect + 1
    /\ lvpStats.squashes = preLvpStats.squashes + 1
    /\ history = preHistory

(***************************************************************************)
(* Frame properties of the operations (checked under SpecPipe).            *)
(***************************************************************************)
\* C13 as stated: predict(pc, tid) has no side effects: the prediction
\* table, every history queue and every statistic counter are the same
\* after the call as before it, whether the call hits, misses or the
\* predictor is disabled.
C13_Original ==
    call.op = "predict"
        => /\ table = preTable
           /\ history = preHistory
           /\ lvpStats = preLvpStats

\* C13 (amended): predict(pc, tid) changes no table slot and no history
\* queue; of the statistic counters it increments exactly one when the
\* predictor is enabled, predictions on a hit and predNotConfident on a
\* miss, and none when the predictor is disabled.
C13_Amended ==
    call.op = "predict"
        => /\ table = preTable
           /\ history = preHistory
           /\ lvpStats =
                IF ~lvpCfg.enabled THEN preLvpStats
                ELSE IF call.ret THEN Inc(preLvpStats, "predictions")
                ELSE Inc(preLvpStats, "predNotConfident")

\* a hit beside a trained table and a non-empty history queue
C13_Witness ==
    /\ call.op = "predict"
    /\ call.ret
    /\ \E t \in Threads : Len(history[t]) > 0
    /\ table[IndexOf(call.pc)].valid
    /\ lvpStats.predictions = preLvpStats.predictions + 1
    /\ lvpStats.predNotConfident = preLvpStats.predNotConfident

\* C14: each operation writes only its own part of the state: update
\* changes only the table slot indexed by its pc and no history queue;
\* addHistory, squash and commitEntry change only the queue of the thread
\* they name and no table slot; validate and predict change no table slot
\* and no queue (validate leaves the entry it matched in place).
C14_OperationsWriteOwnPart ==
    /\ call.op = "update"
         => /\ history = preHistory
            /\ \A i \in DOMAIN table :
                 i # IndexOf(call.pc) => table[i] = preTable[i]
    /\ call.op \in {"addHistory", "squash", "commitEntry"}
         => /\ table = preTable
            /\ \A t \in Threads \ {call.tid} : history[t] = preHistory[t]
    /\ call.op \in {"validate", "predict"}
         => /\ table = preTable
            /\ history = preHistory

\* an update of 0x104's slot beside a valid slot of 0x100 and a non-empty
\* history queue: only slot 1 changed
C14_Witness ==
    /\ call.op = "update"
    /\ call.pc = 260
    /\ preTable[0].valid
    /\ table[0] = preTable[0]
    /\ table[1] # preTable[1]
    /\ \E t \in Threads : Len(preHistory[t]) > 0
    /\ history = preHistory

(***************************************************************************)
(* Further properties of the prediction table (checked under Spec).        *)
(***************************************************************************)
\* C15: the prediction table is shared and not thread-tagged: predict and
\* update do not depend on the thread, so whatever training writes made pc
\* confident, predict(pc, tid) returns the same hit and value for every tid.
C15_PredictSameForEveryThread ==
    call.op = "predict"
        => \A tid \in Threads :
             LET r == predict(lvpCfg, preTable, preLvpStats, call.pc, tid)
             IN  /\ r.ret = call.ret
                 /\ r.value = call.out
                 /\ r.stats = lvpStats

\* thread 1 is given the value training brought to the threshold
C15_Witness ==
    /\ call.op = "predict"
    /\ call.tid = 1
    /\ call.ret
    /\ call.out = 9
    /\ lvpCfg.confidenceThreshold = 2
    /\ predict(lvpCfg, preTable, preLvpStats, call.pc, 0).ret

\* C16: update(pc, v) on a slot that is invalid or holds a different tag
\* installs valid = true, tag = pc, value = v, confidence = 0, whatever the
\* confidence of the previous occupant was; immediately afterwards predict
\* for the evicted pc returns no prediction.
C16_InstallEvictsOccupant ==
    call.op = "update"
        => LET old == preTable[IndexOf(call.pc)]
               new == table[IndexOf(call.pc)]
           IN  (~old.valid \/ old.tag # call.pc)
                  => /\ new = [valid |-> TRUE, tag |-> call.pc,
                               value |-> call.value, confidence |-> 0]
                     /\ old.valid
                          => \A tid \in Threads :
                               ~predict(lvpCfg, table, lvpStats, old.tag,
                                        tid).ret

\* a saturated entry of 0x100 evicted by pc 0, which shares its slot, in a
\* predictor that predicts from confidence 0 on
C16_Witness ==
    /\ call.op = "update"
    /\ call.pc = 0
    /\ lvpCfg.confidenceThreshold = 0
    /\ preTable[IndexOf(0)].valid
    /\ preTable[IndexOf(0)].tag = 256
    /\ preTable[IndexOf(0)].confidence = MaxConfidence
    /\ table[IndexOf(0)].tag = 0
    /\ table[IndexOf(0)].confidence = 0
    /\ predict(lvpCfg, preTable, lvpStats, 256, 0).ret
    /\ ~predict(lvpCfg, table, lvpStats, 256, 0).ret

\* C18: a predictor configured with a tableSize that is not a power of two
\* never becomes operational: construction ends in the fatal error and no
\* operation runs on it; every table access made by predict or update uses
\* an index below tableSize.
C18_FatalSizeNeverOperational ==
    /\ ~isPowerOf2(lvpCfg.tableSize)
         => /\ lvpCfg.fatal
            /\ call = NoCall
            /\ table = <<>>
    /\ call.op \in {"predict", "update"}
         => /\ isPowerOf2(lvpCfg.tableSize)
            /\ getIndex(lvpCfg, call.pc) < lvpCfg.tableSize
            /\ getIndex(lvpCfg, call.pc) \in DOMAIN table

\* construction with tableSize 6 has ended in the fatal error
C18_Witness ==
    /\ lvpCfg.tableSize = 6
    /\ lvpCfg.fatal
    /\ table = <<>>
    /\ call = NoCall

\* the largest value a counter of the configured width holds
ConfiguredMaxConfidence == 2 ^ lvpCfg.confidenceBits - 1

\* C19: the confidence counter of every table slot is a saturating counter
\* whose width is the configured confidenceBits: its value never exceeds
\* 2^confidenceBits - 1, an increment at that maximum is a no-op, and it
\* never wraps to 0.
C19_CounterWidthIsConfidenceBits ==
    /\ \A i \in DOMAIN table :
         table[i].confidence <= ConfiguredMaxConfidence
    /\ call.op = "update"
         => LET old == preTable[IndexOf(call.pc)]
                new == table[IndexOf(call.pc)]
            IN  ( /\ old.valid
                  /\ old.tag = call.pc
                  /\ old.value = call.value
                  /\ old.confidence = ConfiguredMaxConfidence )
                   => new.confidence = ConfiguredMaxConfidence

(***************************************************************************)
(* Further properties of trySimplify (checked under SpecCS).               *)
(***************************************************************************)
\* none of the source operands is the DIT flag register
NoDitOperand(inst) == \A i \in 1..Len(inst.srcs) : ~inst.srcs[i].isDit

\* C17: for an enabled simplifier and an IntMult or IntDiv instruction
\* without a DIT source operand, trySimplify ends in the panic instead of
\* returning a decision, whatever the destination and operand values are,
\* and changes no counter.
C17_MissingDitPanics ==
    (Called /\ csEnabled /\ IsMulDiv(csInst) /\ NoDitOperand(csInst))
        => /\ csRet = "panic"
           /\ csStats = csPreStats
           /\ csResult = csPreResult

\* a multiply by zero into the zero register, without the DIT operand
C17_Witness ==
    /\ csEnabled
    /\ csInst = Inst("IntMultOp", <<IntSrc(0), IntSrc(42)>>, <<ZeroDest>>)
    /\ csRet = "panic"
    /\ csStats = csPreStats

\* filters 1-3 and 5-6 pass: enabled, multiply or divide, DIT operand
\* present, an integer destination that is not always ready, two integer
\* sources
PassesAllButDitValue(inst) ==
    /\ csEnabled
    /\ IsMulDiv(inst)
    /\ ~NoDitOperand(inst)
    /\ Len(inst.dests) > 0
    /\ inst.dests[1].class = "IntRegClass"
    /\ ~inst.dests[1].alwaysReady
    /\ Len(IntVals(inst)) = 2

\* the call just made added one to candidates
CountedCandidate == csStats.candidates = csPreStats.candidates + 1

\* C20 as stated: candidates is incremented by a trySimplify call exactly
\* when the instruction passed filters 1-3 and 5-6.
C20_Original ==
    Called
        => /\ CountedCandidate <=> PassesAllButDitValue(csInst)
           /\ ~CountedCandidate => csStats.candidates = csPreStats.candidates

\* C20 (amended): candidates is incremented by a trySimplify call exactly
\* when the instruction passed filters 1-6, that is filters 1-3 and 5-6 and
\* also filter 4 (the DIT operand reads zero), and so reached operand
\* inspection, whether or not a trivial case then matched.
C20_Amended ==
    Called
        => /\ CountedCandidate <=> EligibleDitClear(csInst)
           /\ ~CountedCandidate => csStats.candidates = csPreStats.candidates

\* 42 * 7 with DIT clear: no case matches, and the call is counted
C20_Witness ==
    /\ csInst = Inst("IntMultOp", <<IntSrc(42), IntSrc(7), DitSrc(0)>>,
                     <<IntDest>>)
    /\ csRet = "false"
    /\ CountedCandidate
    /\ csStats.simplified = csPreStats.simplified

\* filter 5 or filter 6 rejects the instruction: no destination, a first
\* destination that is not an integer register or is always ready, or a
\* number of integer-class sources other than two
RejectedByDestOrCount(inst) ==
    \/ Len(inst.dests) = 0
    \/ Len(inst.dests) > 0 /\ inst.dests[1].class # "IntRegClass"
    \/ Len(inst.dests) > 0 /\ inst.dests[1].alwaysReady
    \/ Len(IntVals(inst)) # 2

C22_DisabledNeverSimplifies ==
    (Called /\ ~csEnabled)
        => /\ csRet = "false"
           /\ csStats = csPreStats
           /\ csResult = csPreResult

\* a disabled simplifier given a multiply by zero without the DIT operand
C22_Witness ==
    /\ ~csEnabled
    /\ csInst = Inst("IntMultOp", <<IntSrc(0), IntSrc(42)>>, <<IntDest>>)
    /\ csRet = "false"
    /\ csStats = csPreStats

\* the counters of the five kinds of simplification
KindCounters == {"multByZero", "multByOne", "divOfZero", "divByOne"}

KindSum(stats) ==
    stats.multByZero + stats.multByOne + stats.divOfZero + stats.divByOne

\* C30: in every reachable state simplified = multByZero + multByOne +
\* divOfZero + divByOne and simplified <= candidates; each call that
\* returns simplified increments simplified and exactly one kind counter
\* (a multiply with a zero operand counts as multByZero even when the other
\* operand is 1, a divide of 0 by 1 as divOfZero), and a single call never
\* increments both ditSuppressed and candidates.
C30_CountersAddUp ==
    /\ csStats.simplified = KindSum(csStats)
    /\ csStats.simplified <= csStats.candidates
    /\ Called
         => /\ IF csRet = "true"
               THEN /\ csStats.simplified = csPreStats.simplified + 1
                    /\ \E k \in KindCounters :
                         /\ csStats[k] = csPreStats[k] + 1
                         /\ \A j \in KindCounters \ {k} :
                              csStats[j] = csPreStats[j]
               ELSE /\ csStats.simplified = csPreStats.simplified
                    /\ \A j \in KindCounters : csStats[j] = csPreStats[j]
            /\ ( /\ csRet = "true"
                  /\ csInst.opClass = "IntMultOp"
                  /\ 0 \in {IntVals(csInst)[1], IntVals(csInst)[2]} )
                 => csStats.multByZero = csPreStats.multByZero + 1
            /\ ( /\ csRet = "true"
                  /\ csInst.opClass = "IntDivOp"
                  /\ IntVals(csInst)[1] = 0 )
                 => csStats.divOfZero = csPreStats.divOfZero + 1
            /\ ~ ( /\ csStats.ditSuppressed # csPreStats.ditSuppressed
                    /\ csStats.candidates # csPreStats.candidates )

\* a second simplified call, 1 * 0, counted as multByZero and not as
\* multByOne
C30_Witness ==
    /\ csCalls = 2
    /\ csRet = "true"
    /\ csInst.opClass = "IntMultOp"
    /\ IntVals(csInst) = <<1, 0>>
    /\ csPreStats.simplified = 1
    /\ csStats.simplified = 2
    /\ csStats.multByZero = csPreStats.multByZero + 1
    /\ csStats.multByOne = csPreStats.multByOne

(***************************************************************************)
(* The life of a table slot (checked under Spec).                          *)
(***************************************************************************)
\* the three ways update changes a slot
SlotInstall(old, new) ==
    /\ ~old.valid \/ old.tag # call.pc
    /\ new = [valid |-> TRUE, tag |-> call.pc, value |-> call.value,
              confidence |-> 0]

SlotIncrement(old, new) ==
    /\ old.valid
    /\ old.tag = call.pc
    /\ old.value = call.value
    /\ new = [old EXCEPT !.confidence = old.confidence + 1]
    /\ new.confidence <= MaxConfidence

SlotValueChange(old, new) ==
    /\ old.valid
    /\ old.tag = call.pc
    /\ old.value # call.value
    /\ new = [old EXCEPT !.value = call.value, !.confidence = 0]

\* two pcs that map to table index i
PCsOfIndex(i) == { 4 * i, 4 * (i + lvpCfg.tableSize) }

\* C23: each table slot follows the state machine Invalid -> Valid and
\* never returns to Invalid; every change of a slot is made by an update
\* that maps to it and is an install (new tag and value, confidence 0), an
\* increment (same tag and value) or a value change (same tag, confidence
\* 0); from every slot state an install by a different pc remains possible,
\* so no slot state is terminal.
C23_SlotStateMachine ==
    \A i \in DOMAIN table :
        /\ preTable[i].valid => table[i].valid
        /\ table[i] # preTable[i]
             => /\ call.op = "update"
                /\ i = IndexOf(call.pc)
                /\ \/ SlotInstall(preTable[i], table[i])
                   \/ SlotIncrement(preTable[i], table[i])
                   \/ SlotValueChange(preTable[i], table[i])
        /\ \E pc \in PCsOfIndex(i) :
             /\ pc # table[i].tag
             /\ getIndex(lvpCfg, pc) = i
             /\ \A v \in Values :
                  LET next == update(lvpCfg, table, pc, v)[i] IN
                  /\ next = [valid |-> TRUE, tag |-> pc, value |-> v,
                             confidence |-> 0]
                  /\ next # table[i]

\* a valid entry of pc 0 with confidence 3 replaced by an install of 0x104
\* in the one-entry table: the slot stays valid
C23_Witness ==
    /\ call.op = "update"
    /\ call.pc = 260
    /\ lvpCfg.tableSize = 1
    /\ preTable[0].valid
    /\ preTable[0].tag = 0
    /\ preTable[0].confidence = 3
    /\ table[0].valid
    /\ table[0].tag = 260
    /\ table[0].confidence = 0

\* C27: if predict(pc, tid) returns (true, v) under confidence threshold T
\* (at most 7), then the most recent T + 1 update calls that mapped to pc's
\* table index were all update(pc, v).
C27_HitNeedsThresholdPlusOneWrites ==
    (call.op = "predict" /\ call.ret)
        => LET t == trained[IndexOf(call.pc)] IN
           /\ lvpCfg.confidenceThreshold <= MaxConfidence
           /\ t.pc = call.pc
           /\ t.value = call.out
           /\ t.run >= lvpCfg.confidenceThreshold + 1

\* a hit under threshold 7 on a slot that had been trained otherwise
\* before: the last eight writes were the same update
C27_Witness ==
    /\ call.op = "predict"
    /\ call.ret
    /\ lvpCfg.confidenceThreshold = 7
    /\ ~trained[IndexOf(call.pc)].fresh
    /\ trained[IndexOf(call.pc)].run = RunCap

(***************************************************************************)
(* The history queues across threads (checked under SpecVal).              *)
(***************************************************************************)
\* C25: when every addHistory for a thread carries a seqNum greater than
\* the seqNum of that thread's tail entry, every thread's history queue is
\* strictly increasing in seqNum from head to tail, hence free of
\* duplicates, in every reachable state, under any interleaving of
\* addHistory, squash, commitEntry and validate across threads.
C25_QueuesStrictlyIncreasing ==
    \A t \in Threads :
        \A i \in 1..Len(history[t]) : \A j \in 1..Len(history[t]) :
            i < j => history[t][i].seqNum < history[t][j].seqNum

\* both threads hold 10 and 11, the younger just appended to thread 1,
\* after a validate had reported a misprediction
C25_Witness ==
    /\ call.op = "addHistory"
    /\ call.tid = 1
    /\ call.seqNum = 11
    /\ SeqNumsOf(history[0]) = <<10, 11>>
    /\ SeqNumsOf(history[1]) = <<10, 11>>
    /\ lvpStats.predIncorrect = 1

\* the queues with every thread but t empty
OwnQueueOnly(hist, t) ==
    [u \in Threads |-> IF u = t THEN hist[t] ELSE <<>>]

\* C26: with sequence numbers unique only within each thread, the result
\* of validate(seqNum, actual) for a load of thread t is decided by thread
\* t's own history entry alone: whichever thread holding an entry with that
\* seqNum the call is made for, it returns and counts what it would with
\* the other threads' queues empty.
C26_ValidateDecidedByOwnThread ==
    call.op = "validate"
        => \A t \in Threads :
             (\E i \in 1..Len(preHistory[t]) :
                  preHistory[t][i].seqNum = call.seqNum)
                => validate(OwnQueueOnly(preHistory, t), preLvpStats,
                            call.seqNum, call.value)
                     = [ret |-> call.ret, stats |-> lvpStats]

(***************************************************************************)
(* Alternating training of one slot (checked under SpecAlt).               *)
(***************************************************************************)
\* C28: when the update calls for two distinct pcs that map to the same
\* table index strictly alternate, the shared slot's confidence is 0 after
\* every update, so with confidenceThreshold >= 1 predict returns no
\* prediction for either pc, however long the sequence runs.
C28_AlternationNeverConfident ==
    /\ \A i \in DOMAIN table : table[i].confidence = 0
    /\ (call.op = "predict" /\ lvpCfg.confidenceThreshold >= 1)
          => ~call.ret

\* a predict for the pc whose entry the slot holds, after the slot had
\* changed hands, under threshold 2: no prediction
C28_Witness ==
    /\ call.op = "predict"
    /\ ~call.ret
    /\ lvpCfg.confidenceThreshold = 2
    /\ table[IndexOf(call.pc)].valid
    /\ table[IndexOf(call.pc)].tag = call.pc
    /\ ~trained[IndexOf(call.pc)].fresh

(***************************************************************************)
(* Every load leaves its queue (checked under SpecLive).                   *)
(***************************************************************************)
\* thread t's queue holds an entry with sequence number sn
Queued(t, sn) == \E i \in 1..Len(history[t]) : history[t][i].seqNum = sn

\* C29: when every entry recorded by addHistory is afterwards removed by a
\* squash or named by exactly one commitEntry call, and the commitEntry
\* calls of a thread come in increasing seqNum order, then the thread's
\* queue holds exactly the loads still in flight (it is empty once all its
\* loads have committed or been squashed) and every entry is eventually
\* removed: no entry stays in the queue, or at its head, forever.
C29_EveryEntryLeaves ==
    /\ [](\A t \in Threads : SeqNumsOf(history[t]) = inFlight[t].loads)
    /\ \A t \in Threads : \A sn \in ValSeqNums :
         Queued(t, sn) ~> ~Queued(t, sn)

\* the commit of 11 empties thread 0's queue, 10 having committed before,
\* while thread 1 still holds a load
C29_Witness ==
    /\ call.op = "commitEntry"
    /\ call.tid = 0
    /\ call.seqNum = 11
    /\ SeqNumsOf(preHistory[0]) = <<11>>
    /\ history[0] = <<>>
    /\ inFlight[0] = [loads |-> <<>>, youngest |-> 11]
    /\ history[1] # <<>>

(***************************************************************************)
(* The result reference of trySimplify (checked under SpecCS).             *)
(***************************************************************************)
\* C31: whenever trySimplify returns not-simplified (disabled, wrong
\* operation class, DIT set, ineligible destination or operand count,
\* non-trivial operands), the caller's result is left exactly as it was
\* before the call; result is written only on the paths that return
\* simplified.
C31_ResultWrittenOnlyWhenSimplified ==
    Called
        => /\ csRet = "false" => csResult = csPreResult
           /\ csResult # csPreResult => csRet = "true"

\* a divide of 7 by 42 with DIT clear after an earlier simplified call: it
\* is counted as a candidate, declined, and result is as it was passed in
C31_Witness ==
    /\ csCalls = 2
    /\ csEnabled
    /\ csInst.opClass = "IntDivOp"
    /\ IntVals(csInst) = <<7, 42>>
    /\ csRet = "false"
    /\ csStats.candidates = csPreStats.candidates + 1
    /\ csStats.simplified = 1
    /\ csResult = csPreResult

(***************************************************************************)
(* The accuracy counters (checked under SpecAcc).                          *)
(***************************************************************************)
\* C32: when addHistory records predicted = true only for a load whose
\* predict call just returned a hit, and validate is called at most once
\* per recorded load, predCorrect + predIncorrect <= predictions holds in
\* every reachable state (so accuracy never exceeds 1), under any
\* interleaving of threads and any squash and commit calls.
C32_ValidatedAtMostPredicted ==
    lvpStats.predCorrect + lvpStats.predIncorrect <= lvpStats.predictions

====
